---------------------------- MODULE Spec2Model ----------------------------
(*
  Model of the chain state machine of starcoin (chain/src/chain.rs):
  BlockChain::new, BlockChain::apply, save_block and the read accessors,
  over a block index and a chain state view.

  apply is modelled step by step (pc follows the position inside apply)
  because the properties checked here are about its intermediate states:
  the order of validation, execution, commit, persist, and what a process
  abort in the middle leaves behind.

  todo!() and unimplemented!() are modelled as what they do: they panic.
*)
EXTENDS Integers, Sequences, FiniteSets, TLC

\* ------------------------------------------------------------------ bounds
MaxTxns    == 2   \* a block carries at most MaxTxns user transactions
MaxBlocks  == 1   \* the block index holds at most MaxBlocks blocks
MaxVersion == 3   \* a chain state view absorbs at most MaxVersion transactions
MaxKey     == 1   \* the keys of the column family are 1..MaxKey

VARIABLES
    head,         \* BlockChain.head
    chain_state,  \* BlockChain.chain_state: [working, committed]
    block_store,  \* storage.block_store: block id -> block
    pc,           \* position: "idle", inside apply, or "down" (no process)
    cur,          \* the block argument of the apply in progress (or last one)
    txns,         \* apply's local txns: the transactions still to execute
    result,       \* how the last apply ended
    verdict,      \* what C::verify_header answered in the current apply
    executed,     \* trace of E::execute_transaction calls of the current apply
    pre,          \* head, block index and chain state when apply was called
    new_result,   \* how the last call of BlockChain::new ended
    cache,        \* StorageInstance::CacheAndDb: contents of the cache backend
    db,           \* StorageInstance::CacheAndDb: contents of the durable backend
    s_cache,      \* Storage (two level package): contents of its cache
    s_db,         \* Storage (two level package): contents of its db
    last,         \* the last KV call: what was called and what both returned
    fresh         \* key -> <<v>> after put(key, v) returned Ok and no write since

\* The chain state machine and the tiered store do not share state.
cvars == <<head, chain_state, block_store, pc, cur, txns, result, verdict,
           executed, pre, new_result>>
svars == <<cache, db, s_cache, s_db, last, fresh>>
vars == <<cvars, svars>>

\* ------------------------------------------------------------- data model
\* HashValue::zero()
ZeroHash == <<>>

\* BlockHeader::id(): the content hash of the header, collision free.
HeaderId(header) == <<header.parent_hash, header.number>>

\* BlockHeader::genesis_block_header_for_test / Block::new_nil_block_for_test
load_genesis_block ==
    [header |-> [parent_hash |-> ZeroHash, number |-> 0], transactions |-> <<>>]

\* Block::id() is the id of its header.
BlockId(block) == HeaderId(block.header)

\* Transaction::UserTransaction(user_txn)
UserTransaction(user_txn) == [kind |-> "UserTransaction", payload |-> <<user_txn>>]

\* Transaction::BlockMetadata(header.into_metadata())
BlockMetadata(header) == [kind |-> "BlockMetadata", payload |-> HeaderId(header)]

\* txn.crypto_hash(): collision free, so the transaction stands for its hash.
crypto_hash(txn) == <<txn.kind, txn.payload>>

\* The txns vector with the BlockMetadata transaction pushed first.
TxnSeq_metadataFirst(block) ==
    <<BlockMetadata(block.header)>> \o
        [i \in 1..Len(block.transactions) |-> UserTransaction(block.transactions[i])]

\* apply's txns vector: every user transaction in block order, then the
\* BlockMetadata transaction made from the header.
TxnSeq(block) ==
    [i \in 1..Len(block.transactions) |-> UserTransaction(block.transactions[i])]
        \o <<BlockMetadata(block.header)>>

\* StarcoinChainState::new(): a fresh view, nothing applied, nothing committed.
\* The state root is abstracted to the number of transactions it absorbed.
StarcoinChainState_new == [working |-> 0, committed |-> 0]

\* block_store.commit_block: idempotent insert keyed by block id.
commit_block(store, block) ==
    IF BlockId(block) \in DOMAIN store
    THEN store
    ELSE [h \in DOMAIN store \cup {BlockId(block)} |->
             IF h = BlockId(block) THEN block ELSE store[h]]

\* block_store.get_block_by_hash / ChainReader::get_block
get_block(hash) ==
    IF hash \in DOMAIN block_store THEN <<block_store[hash]>> ELSE <<>>

\* ChainReader::head_block
head_block == head

\* TransactionInfo::new(txn_hash, state_root, HashValue::zero(), 0, status)
TransactionInfo_new(txn_hash, state_root, status) ==
    [transaction_hash |-> txn_hash, state_root_hash |-> state_root,
     event_root_hash |-> ZeroHash, gas_used |-> 0, major_status |-> status]

\* ChainReader::get_transaction_info: unimplemented!() panics on every call,
\* no TransactionInfo is ever returned.
get_transaction_info(hash) == <<"panic">>

\* ------------------------------------------------------------ the inputs
\* The user transactions of a block are different from each other; they are
\* named by their position, which loses nothing: only their order matters.
UserTxnSeqs ==
    {[i \in 1..n |-> i] : n \in 0..MaxTxns}

\* Parent hashes a caller may put into a header: the zero hash, the genesis
\* id and the id of the current head.
ParentHashes == {ZeroHash, BlockId(load_genesis_block), BlockId(head)}

\* Numbers a caller may put into a header: the one that follows the head's,
\* and 0, which never does.
BlockNumbers == {0, head.header.number + 1}

CandidateBlocks ==
    {[header |-> [parent_hash |-> p, number |-> n], transactions |-> t] :
        p \in ParentHashes, n \in BlockNumbers, t \in UserTxnSeqs}

Snapshot == [head |-> head, block_store |-> block_store,
             chain_state |-> chain_state]

InBounds(block) ==
    /\ chain_state.working + Len(TxnSeq(block)) <= MaxVersion
    /\ \/ BlockId(block) \in DOMAIN block_store
       \/ Cardinality(DOMAIN block_store) < MaxBlocks

\* =========================================================== tiered store
\* storage/src/storage.rs: the CacheAndDb variant of StorageInstance and the
\* two level package Storage, both over a cache backend and a durable backend
\* bound to one column family. A backend holds a partial map key -> value;
\* each backend call either answers or fails, and a failed call changes
\* nothing. A WriteBatch is applied by a backend as a whole or not at all.

Keys == 1..MaxKey

\* Two values are enough to tell the value written from the one before.
Values == {1, 2}

\* Result<T>: Ok with an Option<Vec<u8>> (val) or a bool (flag), Err with the
\* tier it comes from, or the call panicked.
Ok_unit        == [tag |-> "Ok", tier |-> "", val |-> <<>>, flag |-> FALSE]
Ok_value(opt)  == [tag |-> "Ok", tier |-> "", val |-> opt, flag |-> FALSE]
Ok_bool(b)     == [tag |-> "Ok", tier |-> "", val |-> <<>>, flag |-> b]
Err_from(tier) == [tag |-> "Err", tier |-> tier, val |-> <<>>, flag |-> FALSE]
Panicked       == [tag |-> "Panic", tier |-> "db", val |-> <<>>, flag |-> FALSE]
NoCall         == [tag |-> "none", tier |-> "", val |-> <<>>, flag |-> FALSE]

\* WriteOp::Value(v) is <<v>>, WriteOp::Deletion is <<>>.
WriteOps == {<<v>> : v \in Values} \cup {<<>>}

\* A WriteBatch: the keys it touches, each with its WriteOp. (A batch that
\* names a key twice acts on the backend like the batch of its last op.)
Batches == UNION {[S -> WriteOps] : S \in SUBSET Keys}

\* ---- one backend (CacheStorage or DBStorage behind dyn InnerStore)
backend_get(store, key) ==
    IF key \in DOMAIN store THEN <<store[key]>> ELSE <<>>

backend_contains_key(store, key) == key \in DOMAIN store

backend_put(store, key, value) ==
    [k \in DOMAIN store \cup {key} |-> IF k = key THEN value ELSE store[k]]

backend_remove(store, key) ==
    [k \in DOMAIN store \ {key} |-> store[k]]

backend_write_batch(store, batch) ==
    LET deleted == {k \in DOMAIN batch : batch[k] = <<>>}
        written == DOMAIN batch \ deleted
    IN  [k \in (DOMAIN store \ deleted) \cup written |->
            IF k \in written THEN batch[k][1] ELSE store[k]]

\* What a call on a two-tier store yields: the contents of both tiers
\* afterwards, what the caller gets, and whether the durable backend was called.
Outcome(c, d, ret, db_called) ==
    [cache |-> c, db |-> d, ret |-> ret, db_called |-> db_called]

\* ---- impl InnerStore for StorageInstance, the CacheAndDb arms.
\* c_ok, d_ok: whether the cache call and the db call of this call answer.

\* get that asks the durable backend every time.
SI_get_dbEveryTime(c, d, key, c_ok, d_ok) ==
    Outcome(c, d, IF d_ok THEN Ok_value(backend_get(d, key)) ELSE Err_from("db"), TRUE)

\* get that surfaces the error of the cache.
SI_get_cacheErrorSurfaced(c, d, key, c_ok, d_ok) ==
    IF ~c_ok
    THEN Outcome(c, d, Err_from("cache"), FALSE)
    ELSE IF backend_get(c, key) # <<>>
         THEN Outcome(c, d, Ok_value(backend_get(c, key)), FALSE)
         ELSE Outcome(c, d, IF d_ok THEN Ok_value(backend_get(d, key))
                                    ELSE Err_from("db"), TRUE)

\* StorageInstance::get, lines 78-85
SI_get(c, d, key, c_ok, d_ok) ==
    IF c_ok /\ backend_get(c, key) # <<>>
    THEN Outcome(c, d, Ok_value(backend_get(c, key)), FALSE)
    ELSE Outcome(c, d, IF d_ok THEN Ok_value(backend_get(d, key))
                               ELSE Err_from("db"), TRUE)

\* StorageInstance::put, lines 94-97: db.put(..).unwrap() panics when the
\* durable put fails; otherwise the result of cache.put is returned.
SI_put(c, d, key, value, c_ok, d_ok) ==
    IF ~d_ok
    THEN Outcome(c, d, Panicked, TRUE)
    ELSE IF c_ok
         THEN Outcome(backend_put(c, key, value), backend_put(d, key, value),
                      Ok_unit, TRUE)
         ELSE Outcome(c, backend_put(d, key, value), Err_from("cache"), TRUE)

\* contains_key that answers from the durable backend on a cache miss too.
SI_contains_key_missFallsThrough(c, d, key, c_ok, d_ok) ==
    IF c_ok /\ backend_contains_key(c, key)
    THEN Outcome(c, d, Ok_bool(TRUE), FALSE)
    ELSE Outcome(c, d, IF d_ok THEN Ok_bool(backend_contains_key(d, key))
                               ELSE Err_from("db"), TRUE)

\* StorageInstance::contains_key, lines 106-111
SI_contains_key(c, d, key, c_ok, d_ok) ==
    IF ~c_ok
    THEN Outcome(c, d, IF d_ok THEN Ok_bool(backend_contains_key(d, key))
                               ELSE Err_from("db"), TRUE)
    ELSE Outcome(c, d, Ok_bool(backend_contains_key(c, key)), FALSE)

\* remove that clears the cache first.
SI_remove_cacheFirst(c, d, key, c_ok, d_ok) ==
    IF ~c_ok
    THEN Outcome(c, d, Err_from("cache"), FALSE)
    ELSE IF d_ok
         THEN Outcome(backend_remove(c, key), backend_remove(d, key), Ok_unit, TRUE)
         ELSE Outcome(backend_remove(c, key), d, Err_from("db"), TRUE)

\* StorageInstance::remove, lines 120-125
SI_remove(c, d, key, c_ok, d_ok) ==
    IF ~d_ok
    THEN Outcome(c, d, Err_from("db"), TRUE)
    ELSE IF c_ok
         THEN Outcome(backend_remove(c, key), backend_remove(d, key), Ok_unit, TRUE)
         ELSE Outcome(c, backend_remove(d, key), Err_from("cache"), TRUE)

\* write_batch that fills the cache first.
SI_write_batch_cacheFirst(c, d, batch, c_ok, d_ok) ==
    IF ~c_ok
    THEN Outcome(c, d, Err_from("cache"), FALSE)
    ELSE IF d_ok
         THEN Outcome(backend_write_batch(c, batch), backend_write_batch(d, batch),
                      Ok_unit, TRUE)
         ELSE Outcome(backend_write_batch(c, batch), d, Err_from("db"), TRUE)

\* write_batch that swallows the error of the cache.
SI_write_batch_cacheErrorDropped(c, d, batch, c_ok, d_ok) ==
    IF ~d_ok
    THEN Outcome(c, d, Err_from("db"), TRUE)
    ELSE IF c_ok
         THEN Outcome(backend_write_batch(c, batch), backend_write_batch(d, batch),
                      Ok_unit, TRUE)
         ELSE Outcome(c, backend_write_batch(d, batch), Ok_unit, TRUE)

\* StorageInstance::write_batch, lines 134-137
SI_write_batch(c, d, batch, c_ok, d_ok) ==
    IF ~d_ok
    THEN Outcome(c, d, Err_from("db"), TRUE)
    ELSE IF c_ok
         THEN Outcome(backend_write_batch(c, batch), backend_write_batch(d, batch),
                      Ok_unit, TRUE)
         ELSE Outcome(c, backend_write_batch(d, batch), Err_from("cache"), TRUE)

\* ---- impl KVStore for Storage
\* Storage::get, lines 228-236
ST_get(c, d, key, c_ok, d_ok) ==
    IF c_ok /\ backend_get(c, key) # <<>>
    THEN Outcome(c, d, Ok_value(backend_get(c, key)), FALSE)
    ELSE Outcome(c, d, IF d_ok THEN Ok_value(backend_get(d, key))
                               ELSE Err_from("db"), TRUE)

\* Storage::put, lines 238-244
ST_put(c, d, key, value, c_ok, d_ok) ==
    IF ~d_ok
    THEN Outcome(c, d, Panicked, TRUE)
    ELSE IF c_ok
         THEN Outcome(backend_put(c, key, value), backend_put(d, key, value),
                      Ok_unit, TRUE)
         ELSE Outcome(c, backend_put(d, key, value), Err_from("cache"), TRUE)

\* Storage::contains_key, lines 246-248: the cache's answer or the cache's error.
ST_contains_key(c, d, key, c_ok, d_ok) ==
    IF c_ok
    THEN Outcome(c, d, Ok_bool(backend_contains_key(c, key)), FALSE)
    ELSE Outcome(c, d, Err_from("cache"), FALSE)

\* Storage::remove, lines 250-255
ST_remove(c, d, key, c_ok, d_ok) ==
    IF ~d_ok
    THEN Outcome(c, d, Err_from("db"), TRUE)
    ELSE IF c_ok
         THEN Outcome(backend_remove(c, key), backend_remove(d, key), Ok_unit, TRUE)
         ELSE Outcome(c, backend_remove(d, key), Err_from("cache"), TRUE)

\* Storage::write_batch, lines 257-262
ST_write_batch(c, d, batch, c_ok, d_ok) ==
    IF ~d_ok
    THEN Outcome(c, d, Err_from("db"), TRUE)
    ELSE IF c_ok
         THEN Outcome(backend_write_batch(c, batch), backend_write_batch(d, batch),
                      Ok_unit, TRUE)
         ELSE Outcome(c, backend_write_batch(d, batch), Err_from("cache"), TRUE)

\* CacheStorage::new / DBStorage::new: both tiers start empty, in both
\* compositions; no KV call has been made.
EmptyStore == [k \in {} |-> 0]

StoreInit ==
    /\ cache = EmptyStore
    /\ db = EmptyStore
    /\ s_cache = EmptyStore
    /\ s_db = EmptyStore
    /\ last = [op |-> "none", key |-> 0, val |-> 0, n |-> 0,
               c_ok |-> TRUE, d_ok |-> TRUE, ret |-> NoCall, s_ret |-> NoCall,
               db_called |-> FALSE, db_expect |-> EmptyStore]
    /\ fresh = [k \in Keys |-> <<>>]

Init ==
    /\ head = load_genesis_block
    /\ chain_state = StarcoinChainState_new
    /\ block_store = [h \in {} |-> load_genesis_block]
    /\ pc = "idle"
    /\ cur = load_genesis_block
    /\ txns = <<>>
    /\ result = "none"
    /\ verdict = "none"
    /\ executed = <<>>
    /\ pre = [head |-> load_genesis_block,
             block_store |-> [h \in {} |-> load_genesis_block],
             chain_state |-> StarcoinChainState_new]
    /\ new_result = "ok"
    /\ StoreInit

\* ------------------------------------------------------------------ apply
\* apply, line 141: assert_eq!(head.id, block.parent_hash) fails and panics;
\* the panic ends the process.
ApplyParentMismatch(block) ==
    /\ pc = "idle"
    /\ UNCHANGED svars
    /\ InBounds(block)
    /\ HeaderId(head.header) # block.header.parent_hash
    /\ cur' = block
    /\ pre' = Snapshot
    /\ executed' = <<>>
    /\ verdict' = "none"
    /\ txns' = <<>>
    /\ result' = "panic"
    /\ pc' = "down"
    /\ UNCHANGED <<head, chain_state, block_store, new_result>>

\* apply, line 141: the assertion passes; nothing else is checked of the header.
ApplyParentMatch(block) ==
    /\ pc = "idle"
    /\ UNCHANGED svars
    /\ InBounds(block)
    /\ HeaderId(head.header) = block.header.parent_hash
    /\ cur' = block
    /\ pre' = Snapshot
    /\ executed' = <<>>
    /\ verdict' = "none"
    /\ txns' = <<>>
    /\ result' = "running"
    /\ pc' = "verify"
    /\ UNCHANGED <<head, chain_state, block_store, new_result>>

\* Lines 143-152 with the error of verify_header ignored (the ? left out).
VerifyHeader_unchecked ==
    /\ pc = "verify"
    /\ UNCHANGED svars
    /\ \E ok \in BOOLEAN :
          /\ verdict' = IF ok THEN "accept" ELSE "reject"
          /\ txns' = TxnSeq(cur)
          /\ pc' = "exec"
          /\ UNCHANGED result
    /\ UNCHANGED <<head, chain_state, block_store, cur, executed, pre, new_result>>

\* apply, lines 143-152: C::verify_header(self, header)? returns the consensus
\* error to the caller, or lets apply build its txns vector.
VerifyHeader ==
    /\ pc = "verify"
    /\ UNCHANGED svars
    /\ \E ok \in BOOLEAN :
          /\ verdict' = IF ok THEN "accept" ELSE "reject"
          /\ IF ok
             THEN /\ txns' = TxnSeq(cur)
                  /\ pc' = "exec"
                  /\ UNCHANGED result
             ELSE /\ txns' = <<>>
                  /\ pc' = "idle"
                  /\ result' = "ConsensusError"
    /\ UNCHANGED <<head, chain_state, block_store, cur, executed, pre, new_result>>

\* One round of the loop of lines 153-172 that treats Discard as Keep.
ExecuteTxn_keepDiscarded ==
    /\ pc = "exec"
    /\ UNCHANGED svars
    /\ txns # <<>>
    /\ \E status \in {"Keep", "Discard"} :
          /\ executed' = Append(executed, [txn |-> Head(txns), status |-> status])
          /\ chain_state' = [working   |-> chain_state.working + 1,
                             committed |-> chain_state.working + 1]
          /\ txns' = Tail(txns)
          /\ pc' = IF Tail(txns) = <<>> THEN "save" ELSE "exec"
          /\ UNCHANGED result
    /\ UNCHANGED <<head, block_store, cur, verdict, pre, new_result>>

\* apply, lines 153-172: one round of the loop over txns.
\*   E::execute_transaction(..)?  may fail                     -> Err returned
\*   status Discard                                            -> Err returned
\*   status Keep: the effects are in the view, chain_state.commit()? makes
\*   them the committed state root (or fails -> Err returned); the
\*   TransactionInfo built from it is dropped at the end of the round.
ExecuteTxn ==
    /\ pc = "exec"
    /\ UNCHANGED svars
    /\ txns # <<>>
    /\ \E outcome \in {"Keep", "Discard", "ExecutorError", "CommitError"} :
          CASE outcome = "ExecutorError" ->
                  /\ result' = "ExecutorError"
                  /\ pc' = "idle"
                  /\ UNCHANGED <<chain_state, txns, executed>>
            [] outcome = "Discard" ->
                  /\ executed' = Append(executed, [txn |-> Head(txns), status |-> "Discard"])
                  /\ result' = "ExecutionError"
                  /\ pc' = "idle"
                  /\ UNCHANGED <<chain_state, txns>>
            [] outcome = "CommitError" ->
                  /\ executed' = Append(executed, [txn |-> Head(txns), status |-> "Keep"])
                  /\ chain_state' = [chain_state EXCEPT !.working = @ + 1]
                  /\ result' = "CommitError"
                  /\ pc' = "idle"
                  /\ UNCHANGED txns
            [] outcome = "Keep" ->
                  /\ executed' = Append(executed, [txn |-> Head(txns), status |-> "Keep"])
                  /\ chain_state' = [working   |-> chain_state.working + 1,
                                     committed |-> chain_state.working + 1]
                  /\ txns' = Tail(txns)
                  /\ pc' = IF Tail(txns) = <<>> THEN "save" ELSE "exec"
                  /\ UNCHANGED result
    /\ UNCHANGED <<head, block_store, cur, verdict, pre, new_result>>

\* apply line 175 -> save_block line 70: the block goes into the block index.
SaveBlockCommit ==
    /\ pc = "save"
    /\ UNCHANGED svars
    /\ block_store' = commit_block(block_store, cur)
    /\ pc' = "save_todo"
    /\ UNCHANGED <<head, chain_state, cur, txns, result, verdict, executed, pre,
                   new_result>>

\* save_block line 71: todo!() panics. chain_state.flush() (line 176) and
\* self.head = block (line 177) are never reached.
SaveBlockTodo ==
    /\ pc = "save_todo"
    /\ UNCHANGED svars
    /\ result' = "panic"
    /\ pc' = "down"
    /\ UNCHANGED <<head, chain_state, block_store, cur, txns, verdict, executed,
                   pre, new_result>>

\* ------------------------------------------------------ abort and restart
\* The process stops at any point of an apply. The in-memory head and chain
\* state view are gone; the block index stays. (A panic ends the process the
\* same way: the thread that owns the BlockChain unwinds and drops it.)
Crash ==
    /\ pc \in {"verify", "exec", "save", "save_todo"}
    /\ UNCHANGED svars
    /\ pc' = "down"
    /\ result' = "crashed"
    /\ UNCHANGED <<head, chain_state, block_store, cur, txns, verdict, executed,
                   pre, new_result>>

\* A new BlockChain has no apply behind it: the bookkeeping of the last apply
\* of the process before is dropped.
Fresh(new_head) ==
    /\ cur' = new_head
    /\ txns' = <<>>
    /\ result' = "none"
    /\ verdict' = "none"
    /\ executed' = <<>>
    /\ pre' = [head |-> new_head, block_store |-> block_store,
               chain_state |-> StarcoinChainState_new]

\* BlockChain::new(config, storage, None): the head is the genesis block.
NewGenesis ==
    /\ pc = "down"
    /\ UNCHANGED svars
    /\ head' = load_genesis_block
    /\ chain_state' = StarcoinChainState_new
    /\ pc' = "idle"
    /\ new_result' = "ok"
    /\ Fresh(load_genesis_block)
    /\ UNCHANGED block_store

\* BlockChain::new(config, storage, Some(header)), the block is in the index.
NewResume(header) ==
    /\ pc = "down"
    /\ UNCHANGED svars
    /\ get_block(HeaderId(header)) # <<>>
    /\ head' = get_block(HeaderId(header))[1]
    /\ chain_state' = StarcoinChainState_new
    /\ pc' = "idle"
    /\ new_result' = "ok"
    /\ Fresh(get_block(HeaderId(header))[1])
    /\ UNCHANGED block_store

\* BlockChain::new(config, storage, Some(header)), the block is not in the
\* index: .expect("") panics, no chain is constructed.
NewMissingHead(header) ==
    /\ pc = "down"
    /\ UNCHANGED svars
    /\ get_block(HeaderId(header)) = <<>>
    /\ new_result' = "panic"
    /\ UNCHANGED <<head, chain_state, block_store, pc, cur, txns, result, verdict,
                   executed, pre>>

\* Resume headers a caller may hand to new: the header of any stored block, of
\* the genesis block, and of the block whose apply was cut short.
ResumeHeaders ==
    {block_store[h].header : h \in DOMAIN block_store}
        \cup {load_genesis_block.header, cur.header}

Next ==
    \/ \E block \in CandidateBlocks : ApplyParentMismatch(block)
    \/ \E block \in CandidateBlocks : ApplyParentMatch(block)
    \/ VerifyHeader
    \/ ExecuteTxn
    \/ SaveBlockCommit
    \/ SaveBlockTodo
    \/ Crash
    \/ NewGenesis
    \/ \E header \in ResumeHeaders : NewResume(header)
    \/ \E header \in ResumeHeaders : NewMissingHead(header)

Spec == Init /\ [][Next]_vars

TypeOK ==
    /\ pc \in {"idle", "verify", "exec", "save", "save_todo", "down"}
    /\ result \in {"none", "running", "panic", "crashed",
                   "ConsensusError", "ExecutionError", "ExecutorError", "CommitError"}
    /\ verdict \in {"none", "accept", "reject"}
    /\ new_result \in {"ok", "panic"}
    /\ chain_state.committed <= chain_state.working
    /\ chain_state.working <= MaxVersion
    /\ Cardinality(DOMAIN block_store) <= MaxBlocks

\* -------------------------------------------------------- the KV calls
\* Every call is made on the CacheAndDb instance and on the Storage package
\* alike, with the same answers of the backends. db_expect is what the durable
\* backend has to hold afterwards: the write, if its durable call answered.
Called(op, key, val, n, c_ok, d_ok, o, t, expect) ==
    /\ cache' = o.cache
    /\ db' = o.db
    /\ s_cache' = t.cache
    /\ s_db' = t.db
    /\ last' = [op |-> op, key |-> key, val |-> val, n |-> n,
                c_ok |-> c_ok, d_ok |-> d_ok, ret |-> o.ret, s_ret |-> t.ret,
                db_called |-> o.db_called, db_expect |-> expect]

KvGet(key) ==
    /\ \E c_ok \in BOOLEAN, d_ok \in BOOLEAN :
          Called("get", key, 0, 0, c_ok, d_ok,
                 SI_get(cache, db, key, c_ok, d_ok),
                 ST_get(s_cache, s_db, key, c_ok, d_ok), db)
    /\ UNCHANGED fresh
    /\ UNCHANGED cvars

KvContainsKey(key) ==
    /\ \E c_ok \in BOOLEAN, d_ok \in BOOLEAN :
          Called("contains_key", key, 0, 0, c_ok, d_ok,
                 SI_contains_key(cache, db, key, c_ok, d_ok),
                 ST_contains_key(s_cache, s_db, key, c_ok, d_ok), db)
    /\ UNCHANGED fresh
    /\ UNCHANGED cvars

KvPut(key, value) ==
    /\ \E c_ok \in BOOLEAN, d_ok \in BOOLEAN :
          /\ Called("put", key, value, 0, c_ok, d_ok,
                    SI_put(cache, db, key, value, c_ok, d_ok),
                    ST_put(s_cache, s_db, key, value, c_ok, d_ok),
                    IF d_ok THEN backend_put(db, key, value) ELSE db)
          /\ fresh' = [fresh EXCEPT ![key] =
                          IF SI_put(cache, db, key, value, c_ok, d_ok).ret = Ok_unit
                          THEN <<value>> ELSE <<>>]
    /\ UNCHANGED cvars

KvRemove(key) ==
    /\ \E c_ok \in BOOLEAN, d_ok \in BOOLEAN :
          Called("remove", key, 0, 0, c_ok, d_ok,
                 SI_remove(cache, db, key, c_ok, d_ok),
                 ST_remove(s_cache, s_db, key, c_ok, d_ok),
                 IF d_ok THEN backend_remove(db, key) ELSE db)
    /\ fresh' = [fresh EXCEPT ![key] = <<>>]
    /\ UNCHANGED cvars

KvWriteBatch(batch) ==
    /\ \E c_ok \in BOOLEAN, d_ok \in BOOLEAN :
          Called("write_batch", 0, 0, Cardinality(DOMAIN batch), c_ok, d_ok,
                 SI_write_batch(cache, db, batch, c_ok, d_ok),
                 ST_write_batch(s_cache, s_db, batch, c_ok, d_ok),
                 IF d_ok THEN backend_write_batch(db, batch) ELSE db)
    /\ fresh' = [k \in Keys |-> IF k \in DOMAIN batch THEN <<>> ELSE fresh[k]]
    /\ UNCHANGED cvars

\* The cache backend drops an entry (eviction, or the entry is lost).
CacheEvict(key) ==
    /\ key \in DOMAIN cache
    /\ cache' = backend_remove(cache, key)
    /\ s_cache' = backend_remove(s_cache, key)
    /\ last' = [last EXCEPT !.op = "evict", !.key = key, !.val = 0, !.n = 0,
                            !.ret = NoCall, !.s_ret = NoCall,
                            !.db_called = FALSE, !.db_expect = db]
    /\ UNCHANGED <<db, s_db, fresh>>
    /\ UNCHANGED cvars

NextStore ==
    \/ \E key \in Keys : KvGet(key)
    \/ \E key \in Keys : KvContainsKey(key)
    \/ \E key \in Keys, value \in Values : KvPut(key, value)
    \/ \E key \in Keys : KvRemove(key)
    \/ \E batch \in Batches : KvWriteBatch(batch)
    \/ \E key \in Keys : CacheEvict(key)

SpecStorage == Init /\ [][NextStore]_vars

StoreTypeOK ==
    /\ DOMAIN cache \subseteq Keys
    /\ DOMAIN db \subseteq Keys
    /\ last.ret.tag \in {"none", "Ok", "Err", "Panic"}

\* ================================================================ claims
ApplyPcs == {"verify", "exec", "save", "save_todo"}

\* The apply of cur has ended (returned or panicked) and nothing ran since.
ApplyEnded ==
    /\ pc \in {"idle", "down"}
    /\ result \notin {"none", "running", "crashed"}

ParentIsHead == cur.header.parent_hash = BlockId(pre.head)

\* The execution order the block prescribes: user transactions in block
\* order, then the BlockMetadata transaction of the header.
ExpectedTxn(block, i) ==
    IF i <= Len(block.transactions)
    THEN UserTransaction(block.transactions[i])
    ELSE BlockMetadata(block.header)

\* Every transaction of cur was executed with status Keep and committed.
AllKept ==
    /\ Len(executed) = Len(cur.transactions) + 1
    /\ \A i \in 1..Len(executed) : executed[i].status = "Keep"
    /\ chain_state.committed = pre.chain_state.working + Len(executed)

SomeDiscard == \E i \in 1..Len(executed) : executed[i].status = "Discard"

Untouched ==
    /\ head = pre.head
    /\ block_store = pre.block_store
    /\ chain_state = pre.chain_state

\* C1: a block on the head, accepted by consensus, all transactions Keep:
\* apply returns success, the head is the block, get_block(id) returns it.
C1_Claim ==
    (ApplyEnded /\ ParentIsHead /\ verdict = "accept" /\ AllKept)
        => /\ result = "Ok"
           /\ head_block = cur
           /\ get_block(BlockId(cur)) = <<cur>>

\* C2: a block whose parent is not the head: apply returns an
\* InvariantViolation error, head, block index and chain state view untouched.
C2_Claim ==
    (ApplyEnded /\ ~ParentIsHead)
        => /\ result = "InvariantViolation"
           /\ Untouched

\* C3: after an apply that returned an error, the committed state root, the
\* block index and the head are what they were when apply was called.
C3_Claim ==
    (ApplyEnded /\ result \in {"ConsensusError", "ExecutionError",
                               "ExecutorError", "CommitError"})
        => /\ chain_state.committed = pre.chain_state.committed
           /\ block_store = pre.block_store
           /\ head = pre.head

\* C4: once a transaction of the block was executed with status Discard, apply
\* has returned an ExecutionError, the head is the one before the call, and
\* get_transaction_info yields no TransactionInfo for any transaction of the block.
C4_DiscardFailsApply ==
    SomeDiscard
        => /\ pc = "idle"
           /\ result = "ExecutionError"
           /\ head = pre.head
           /\ \A i \in 1..(Len(cur.transactions) + 1) :
                 get_transaction_info(crypto_hash(ExpectedTxn(cur, i)))[1] # "Ok"

\* A Discard on the second transaction, after a Keep on the first.
C4_Witness ==
    /\ pc = "idle"
    /\ result = "ExecutionError"
    /\ Len(executed) = 2
    /\ executed[1].status = "Keep"
    /\ executed[2].status = "Discard"

\* C5: when consensus rejects the header, apply has returned a consensus
\* error, no transaction was executed, and head, chain state view and block
\* index are what they were when apply was called.
C5_ConsensusRejects ==
    verdict = "reject"
        => /\ pc = "idle"
           /\ result = "ConsensusError"
           /\ executed = <<>>
           /\ Untouched

\* Consensus rejected a block that sits on the head and carries transactions.
C5_Witness ==
    /\ verdict = "reject"
    /\ result = "ConsensusError"
    /\ ParentIsHead
    /\ Len(cur.transactions) > 0

\* C6: no transaction is executed for a block whose number is not
\* head.number() + 1.
C6_Claim ==
    executed # <<>> => cur.header.number = pre.head.header.number + 1

C8_Claim ==
    [][(pc = "down" /\ pc' = "idle" /\ result \in {"crashed", "panic"})
           => head' = pre.head]_vars

\* C9: the transactions executed so far are, position by position, the user
\* transactions of the block in block order followed by the BlockMetadata
\* transaction of its header; only the last executed one can be a Discard; and
\* when the loop is over each was executed exactly once, BlockMetadata last.
C9_SequentialExecution ==
    /\ Len(executed) <= Len(cur.transactions) + 1
    /\ \A i \in 1..Len(executed) :
          /\ executed[i].txn = ExpectedTxn(cur, i)
          /\ i < Len(executed) => executed[i].status = "Keep"
    /\ pc \in {"save", "save_todo"}
          => /\ Len(executed) = Len(cur.transactions) + 1
             /\ executed[Len(executed)].txn = BlockMetadata(cur.header)
             /\ \A i \in 1..Len(executed) : executed[i].status = "Keep"
    /\ pc = "exec" => txns # <<>> /\ txns[1] = ExpectedTxn(cur, Len(executed) + 1)

\* The loop is over for a block with two different user transactions.
C9_Witness ==
    /\ pc = "save"
    /\ Len(cur.transactions) = 2
    /\ cur.transactions[1] # cur.transactions[2]
    /\ executed[1].txn = UserTransaction(cur.transactions[1])
    /\ executed[2].txn = UserTransaction(cur.transactions[2])
    /\ Len(executed) = 3

\* C10: after an apply whose transactions were all kept and committed,
\* get_transaction_info returns, for each of them, the TransactionInfo built
\* for its hash.
C10_Claim ==
    (ApplyEnded /\ ParentIsHead /\ verdict = "accept" /\ AllKept)
        => \A i \in 1..Len(executed) :
              /\ get_transaction_info(crypto_hash(executed[i].txn))[1] = "Ok"
              /\ get_transaction_info(crypto_hash(executed[i].txn))[2] =
                    TransactionInfo_new(crypto_hash(executed[i].txn),
                                        pre.chain_state.working + i, "Keep")

\* C11: a call of BlockChain::new that constructs no chain has returned the
\* "missing head" error to its caller.
C11_Claim ==
    new_result # "ok" => new_result = "MissingHead"

\* C12: when the durable put fails, put returns an error to the caller and
\* the cache is left as it was.
C12_Claim ==
    [][(last'.op = "put" /\ ~last'.d_ok)
           => (last'.ret.tag = "Err" /\ cache' = cache)]_vars

\* C13: write_batch changes the cache only after the durable backend took the
\* batch; when the durable batch fails, write_batch returns the error and both
\* tiers, the cache in particular, are as before.
C13_BatchDurableFirst ==
    [][last'.op = "write_batch"
           => /\ ~last'.d_ok => (last'.ret = Err_from("db") /\ cache' = cache)
              /\ cache' # cache => (last'.d_ok /\ db' = last'.db_expect)
              /\ last'.db_called]_vars

\* A batch with an operation failed in the durable backend while the cache
\* held an entry.
C13_Witness ==
    /\ last.op = "write_batch"
    /\ last.n >= 1
    /\ ~last.d_ok
    /\ last.ret = Err_from("db")
    /\ DOMAIN cache # {}

\* C14: remove touches the cache only after the durable removal; when the
\* durable removal fails, remove returns an error and the cache is as before.
C14_RemoveDurableFirst ==
    [][last'.op = "remove"
           => /\ ~last'.d_ok => (last'.ret.tag = "Err" /\ cache' = cache)
              /\ cache' # cache => (last'.d_ok /\ last'.key \notin DOMAIN db')
              /\ last'.db_called]_vars

\* The durable removal of a cached key failed.
C14_Witness ==
    /\ last.op = "remove"
    /\ ~last.d_ok
    /\ last.ret.tag = "Err"
    /\ last.key \in DOMAIN cache

\* C15: while put(k, v) is the last write on k and it returned Ok: the cache,
\* if it has k, has v, and the durable backend has v; a get(k) whose cache
\* call answers with the entry returns v without a call of the durable
\* backend; a get(k) that misses the cache (entry evicted or lost) returns v
\* from the durable backend. (Only a failing durable call makes that get fail.)
C15_GetAfterPut ==
    \A k \in Keys :
        fresh[k] # <<>>
            => /\ backend_get(db, k) = fresh[k]
               /\ backend_get(cache, k) \in {fresh[k], <<>>}
               /\ (last.op = "put" /\ last.key = k) => backend_get(cache, k) = fresh[k]
               /\ (last.op = "get" /\ last.key = k)
                    => /\ last.db_called <=> ~(last.c_ok /\ k \in DOMAIN cache)
                       /\ \/ last.ret = Ok_value(fresh[k])
                          \/ last.db_called /\ ~last.d_ok /\ last.ret = Err_from("db")

\* After a put that returned Ok the cache entry was lost, and get returned the
\* value through the durable backend.
C15_Witness ==
    /\ last.op = "get"
    /\ fresh[last.key] # <<>>
    /\ last.key \notin DOMAIN cache
    /\ last.c_ok
    /\ last.db_called
    /\ last.ret = Ok_value(fresh[last.key])

\* C16: get returns the cache's value when the cache answers with one;
\* on a cache miss or a cache error it returns exactly what the durable
\* backend answers (value, absent or error), never the error of the cache.
C16_GetReadsThrough ==
    last.op = "get"
        => IF last.c_ok /\ last.key \in DOMAIN cache
           THEN /\ last.ret = Ok_value(<<cache[last.key]>>)
                /\ ~last.db_called
           ELSE /\ last.db_called
                /\ last.ret = IF last.d_ok
                              THEN Ok_value(backend_get(db, last.key))
                              ELSE Err_from("db")

\* The cache call failed on a key whose cached value is stale, and get
\* returned the durable value.
C16_Witness ==
    /\ last.op = "get"
    /\ ~last.c_ok
    /\ last.d_ok
    /\ last.key \in DOMAIN cache
    /\ last.key \in DOMAIN db
    /\ cache[last.key] # db[last.key]
    /\ last.ret = Ok_value(<<db[last.key]>>)

C18_CacheErrorSurfaced ==
    (last.op \in {"put", "write_batch"} /\ last.d_ok /\ ~last.c_ok)
        => /\ last.ret = Err_from("cache")
           /\ db = last.db_expect
           /\ last.op = "put" => backend_get(db, last.key) = <<last.val>>

\* A batch went into the durable backend, the cache write failed, the tiers
\* differ.
C18_Witness ==
    /\ last.op = "write_batch"
    /\ last.n >= 1
    /\ last.d_ok
    /\ ~last.c_ok
    /\ last.ret = Err_from("cache")
    /\ db # cache

\* C19: the CacheAndDb instance and the Storage package return the same
\* result and hold the same contents after every call.
C19_Claim ==
    /\ last.ret = last.s_ret
    /\ cache = s_cache
    /\ db = s_db

\* C20: contains_key returns the cache's answer whenever the cache answers,
\* without a call of the durable backend, and the durable backend's answer
\* only when the cache call fails.
C20_ContainsKeyPrefersCache ==
    last.op = "contains_key"
        => IF last.c_ok
           THEN /\ last.ret = Ok_bool(last.key \in DOMAIN cache)
                /\ ~last.db_called
           ELSE /\ last.db_called
                /\ last.ret = IF last.d_ok
                              THEN Ok_bool(last.key \in DOMAIN db)
                              ELSE Err_from("db")

\* The cache answered "absent" for a key the durable backend holds.
C20_Witness ==
    /\ last.op = "contains_key"
    /\ last.c_ok
    /\ last.key \notin DOMAIN cache
    /\ last.key \in DOMAIN db
    /\ last.ret = Ok_bool(FALSE)

\* C21: every key the cache holds is held by the durable backend with the
\* same value, so no get returns a value the durable backend does not hold.
C21_Claim ==
    \A k \in DOMAIN cache : backend_get(db, k) = <<cache[k]>>

\* C22: with both backends answering, contains_key(k) returns true exactly
\* when get(k) returns a value, for every key.
C22_Claim ==
    \A k \in Keys :
        SI_contains_key(cache, db, k, TRUE, TRUE).ret
            = Ok_bool(SI_get(cache, db, k, TRUE, TRUE).ret.val # <<>>)

\* C23: while a BlockChain exists, get_block(head_block().id()) returns the
\* head block.
C23_Claim ==
    pc # "down" => get_block(BlockId(head_block)) = <<head_block>>

====
